---- MODULE Spec2Model ----
(***************************************************************************)
(* The COVID-19 dashboards lo1.py, lo2.py and lo3.py: one table read from  *)
(* a CSV file, cleaned once at import, and two aggregate tables recomputed *)
(* by the Dash callbacks on every filter change.                           *)
(*                                                                         *)
(* A DataFrame is a sequence of rows; a row is a function from column      *)
(* names to cell values.  The columns are named as in lo2.py / lo3.py      *)
(* (gender, age, province); lo1.py reads the same three columns under the  *)
(* names sexo, edad, residencia_provincia_nombre.                          *)
(*                                                                         *)
(* The age column of the raw table is float64 (it holds NaN): a float x    *)
(* with one binary fractional digit is stored as the integer 2x, so that   *)
(* astype(int) is a truncation and not the identity.                       *)
(***************************************************************************)
EXTENDS Integers, Sequences, FiniteSets, TLC

\* Largest number of rows of the CSV file.
MaxRows == 3

Genders == {"F", "M"}
Provinces == {"Buenos Aires", "Cordoba"}
\* Raw (float) ages 0.0 and 1.0, stored doubled.
RawAges == {0, 2}
\* The values the age range slider passes to update_graphs.
AgeBounds == {0, 1}

\* A missing cell of a string column, and of the float age column.
NaN == "NaN"
NaNAge == 0 - 1

Columns == <<"gender", "age", "province">>

CompleteRows == [gender : Genders, age : RawAges, province : Provinces, other : {"x"}]

\* One row for each way a cell the dashboards read can be missing.
NullRows ==
    { [gender |-> NaN, age |-> 2, province |-> "Buenos Aires", other |-> "x"],
      [gender |-> "F", age |-> NaNAge, province |-> "Buenos Aires", other |-> "x"],
      [gender |-> "F", age |-> 2, province |-> NaN, other |-> "x"] }

\* A row of age 1.5 that misses only a column the dashboards never read.
OddRows == { [gender |-> "M", age |-> 3, province |-> "Cordoba", other |-> NaN] }

RawRows == CompleteRows \cup NullRows \cup OddRows

Tables == UNION { [1..n -> RawRows] : n \in 0..MaxRows }

VARIABLES covid_data, covid_filtered, gapminder_data, pc, fig1, fig2

vars == <<covid_data, covid_filtered, gapminder_data, pc, fig1, fig2>>

----------------------------------------------------------------------------
(* pandas *)

Range(s) == { s[i] : i \in DOMAIN s }

isna(col, v) == IF col = "age" THEN v = NaNAge ELSE v = NaN

\* df[[c1, c2, ...]]: keeps the named columns of every row.
Project(df, cols) == [i \in DOMAIN df |-> [c \in Range(cols) |-> df[i][c]]]

\* dropna(subset=["gender", "province"]): a row without age is kept.
dropna_subset(df) ==
    SelectSeq(df, LAMBDA r : ~isna("gender", r["gender"]) /\ ~isna("province", r["province"]))

\* DataFrame.dropna(): drops every row with a missing cell.
dropna(df) == SelectSeq(df, LAMBDA r : \A c \in DOMAIN r : ~isna(c, r[c]))

\* float -> int: truncation (ages are not negative); NaN cannot be cast.
astype_int(x) == x \div 2

CanCast(df) == \A i \in DOMAIN df : ~isna("age", df[i]["age"])

astype_age(df) == [i \in DOMAIN df |-> [df[i] EXCEPT !["age"] = astype_int(@)]]

\* isin that takes an empty selection for "no filter".
isin_or_all(v, values) == values = {} \/ v \in values

\* Series.isin(values)
isin(v, values) == v \in values

\* The order pandas sorts group keys in: numbers by value, strings
\* lexicographically.
StrRank == ("Buenos Aires" :> 1) @@ ("Cordoba" :> 2) @@ ("F" :> 1) @@ ("M" :> 2)

Ord(col, v) == IF col = "age" THEN v ELSE StrRank[v]

Key(r, by) == [j \in DOMAIN by |-> r[by[j]]]

KeyLess(a, b, by) ==
    \E j \in DOMAIN by :
        /\ \A h \in 1..(j - 1) : a[h] = b[h]
        /\ Ord(by[j], a[j]) < Ord(by[j], b[j])

\* size that records a key once and never counts its further rows.
RECURSIVE size_once(_, _)
size_once(df, by) ==
    IF df = <<>> THEN [k \in {} |-> 0]
    ELSE LET rest == size_once(SubSeq(df, 1, Len(df) - 1), by)
             k == Key(df[Len(df)], by)
         IN  IF k \in DOMAIN rest THEN rest ELSE (k :> 1) @@ rest

\* GroupBy.size(): one pass over the rows, counting each key.
RECURSIVE size(_, _)
size(df, by) ==
    IF df = <<>> THEN [k \in {} |-> 0]
    ELSE LET rest == size(SubSeq(df, 1, Len(df) - 1), by)
             k == Key(df[Len(df)], by)
         IN  IF k \in DOMAIN rest THEN [rest EXCEPT ![k] = @ + 1]
             ELSE (k :> 1) @@ rest

\* groupby(..., sort=True): the group keys in ascending order.
RECURSIVE SortedKeys(_, _)
SortedKeys(S, by) ==
    IF S = {} THEN <<>>
    ELSE LET m == CHOOSE k \in S : \A o \in S \ {k} : KeyLess(k, o, by)
         IN  <<m>> \o SortedKeys(S \ {m}, by)

\* No grouping: one row of count 1 for every row of df.
groupby_size_rows(df, by) ==
    [i \in DOMAIN df |->
        [c \in Range(by) \cup {"cases"} |-> IF c = "cases" THEN 1 ELSE df[i][c]]]

\* df.groupby(by).size().reset_index(name="cases")
groupby_size(df, by) ==
    LET s == size(df, by)
        keys == SortedKeys(DOMAIN s, by)
    IN  [i \in DOMAIN keys |->
            [c \in Range(by) \cup {"cases"} |->
                IF c = "cases" THEN s[keys[i]]
                ELSE keys[i][CHOOSE j \in DOMAIN by : by[j] = c]]]

Remove(s, i) == SubSeq(s, 1, i - 1) \o SubSeq(s, i + 1, Len(s))

\* The sort with ascending=True.
RECURSIVE sort_values_asc(_)
sort_values_asc(df) ==
    IF df = <<>> THEN {<<>>}
    ELSE UNION { { <<df[i]>> \o t : t \in sort_values_asc(Remove(df, i)) } :
                 i \in { i \in DOMAIN df : \A j \in DOMAIN df : df[i]["cases"] <= df[j]["cases"] } }

\* df.sort_values("cases", ascending=False).  The default kind is quicksort,
\* which is not stable: the rows of equal count come out in any order.
RECURSIVE sort_values(_)
sort_values(df) ==
    IF df = <<>> THEN {<<>>}
    ELSE UNION { { <<df[i]>> \o t : t \in sort_values(Remove(df, i)) } :
                 i \in { i \in DOMAIN df : \A j \in DOMAIN df : df[i]["cases"] >= df[j]["cases"] } }

----------------------------------------------------------------------------
(* Module level: pd.read_csv has returned covid_data. *)

Init ==
    /\ covid_data \in Tables
    /\ covid_filtered = <<>>
    /\ gapminder_data = <<>>
    /\ pc = "import"
    /\ fig1 = <<>>
    /\ fig2 = <<>>

----------------------------------------------------------------------------
(* lo2.py and lo3.py *)

\* Module level of lo2.py / lo3.py: select the three columns, dropna, cast
\* the age to int, aggregate.  The cast raises on a NaN that is still there.
Load ==
    /\ pc = "import"
    /\ LET cleaned == dropna(Project(covid_data, Columns))
       IN  IF CanCast(cleaned)
           THEN /\ covid_filtered' = astype_age(cleaned)
                /\ gapminder_data' =
                       groupby_size(astype_age(cleaned), <<"age", "province", "gender">>)
                /\ pc' = "serving"
           ELSE /\ pc' = "error"
                /\ UNCHANGED <<covid_filtered, gapminder_data>>
    /\ UNCHANGED <<covid_data, fig1, fig2>>

\* The age filter with the upper bound excluded.
filtered_df_below(selected_genders, age_range) ==
    SelectSeq(covid_filtered,
              LAMBDA r : /\ isin(r["gender"], selected_genders)
                         /\ r["age"] >= age_range[1]
                         /\ r["age"] < age_range[2])

\* The age filter alone, the selected genders ignored.
filtered_df_any_gender(selected_genders, age_range) ==
    SelectSeq(covid_filtered,
              LAMBDA r : r["age"] >= age_range[1] /\ r["age"] <= age_range[2])

\* The rows update_graphs keeps.
filtered_df(selected_genders, age_range) ==
    SelectSeq(covid_filtered,
              LAMBDA r : /\ isin(r["gender"], selected_genders)
                         /\ r["age"] >= age_range[1]
                         /\ r["age"] <= age_range[2])

\* The aggregations taken of the whole loaded table instead of filtered_df.
region_cases_df_unfiltered(f) == sort_values(groupby_size(covid_filtered, <<"province">>))

age_region_df_unfiltered(f) == groupby_size(covid_filtered, <<"age", "province", "gender">>)

\* The outcomes of the region aggregation and its sort.
region_cases_df(f) == sort_values(groupby_size(f, <<"province">>))

age_region_df(f) == groupby_size(f, <<"age", "province", "gender">>)

\* The callback of lo2.py / lo3.py: both figures from one filter state.
update_graphs ==
    /\ pc = "serving"
    /\ \E selected_genders \in SUBSET Genders, age_range \in AgeBounds \X AgeBounds :
         LET f == filtered_df(selected_genders, age_range)
         IN  /\ \E sorted \in region_cases_df(f) :
                   fig1' = << [selected_genders |-> selected_genders,
                               age_range |-> age_range,
                               data |-> sorted] >>
             /\ fig2' = << [selected_genders |-> selected_genders,
                            age_range |-> age_range,
                            data |-> age_region_df(f)] >>
    /\ UNCHANGED <<covid_data, covid_filtered, gapminder_data, pc>>

Next == Load \/ update_graphs

Spec == Init /\ [][Next]_vars

----------------------------------------------------------------------------
(* lo1.py *)

\* Module level of lo1.py: select the three columns, dropna, aggregate.  The
\* age stays a float.
LoadLo1 ==
    /\ pc = "import"
    /\ covid_filtered' = dropna(Project(covid_data, Columns))
    /\ gapminder_data' =
           groupby_size(dropna(Project(covid_data, Columns)), <<"age", "province", "gender">>)
    /\ pc' = "serving"
    /\ UNCHANGED <<covid_data, fig1, fig2>>

\* The outcomes of update_region_cases' aggregation and sort.
sorted_df(selected_genders) ==
    sort_values(groupby_size(SelectSeq(covid_filtered,
                                       LAMBDA r : isin(r["gender"], selected_genders)),
                             <<"province">>))

\* The table aggregated at import, plotted whole.
gapminder_unfiltered(selected_genders) == gapminder_data

\* The rows of the table aggregated at import that update_age_region plots.
gapminder_filtered(selected_genders) ==
    SelectSeq(gapminder_data, LAMBDA r : isin(r["gender"], selected_genders))

update_region_cases ==
    /\ pc = "serving"
    /\ \E selected_genders \in SUBSET Genders :
         \E sorted \in sorted_df(selected_genders) :
             fig1' = << [selected_genders |-> selected_genders, data |-> sorted] >>
    /\ UNCHANGED <<covid_data, covid_filtered, gapminder_data, pc, fig2>>

update_age_region ==
    /\ pc = "serving"
    /\ \E selected_genders \in SUBSET Genders :
         fig2' = << [selected_genders |-> selected_genders,
                     data |-> gapminder_filtered(selected_genders)] >>
    /\ UNCHANGED <<covid_data, covid_filtered, gapminder_data, pc, fig1>>

NextLo1 == LoadLo1 \/ update_region_cases \/ update_age_region

SpecLo1 == Init /\ [][NextLo1]_vars

----------------------------------------------------------------------------
(* What the views are compared with *)

RECURSIVE SumCases(_)
SumCases(df) == IF df = <<>> THEN 0 ELSE df[1]["cases"] + SumCases(Tail(df))

\* The loaded records a filter state selects.
Matching(selected_genders, age_range) ==
    { i \in DOMAIN covid_filtered :
        /\ covid_filtered[i]["gender"] \in selected_genders
        /\ age_range[1] <= covid_filtered[i]["age"]
        /\ covid_filtered[i]["age"] <= age_range[2] }

Triple(r) == <<r["age"], r["province"], r["gender"]>>

\* The rows of a view that carry a given (age, province, gender).
RowsOf(df, t) == { j \in DOMAIN df : Triple(df[j]) = t }

\* The count a region view shows for a province, 0 when it has no row.
RegionCount(df, p) ==
    IF \E j \in DOMAIN df : df[j]["province"] = p
    THEN df[CHOOSE j \in DOMAIN df : df[j]["province"] = p]["cases"]
    ELSE 0

\* update_graphs has answered: region_counts in fig1, age_region_counts in fig2.
Rendered == fig1 # <<>> /\ fig2 # <<>>

----------------------------------------------------------------------------
(* lo2.py / lo3.py, under Spec *)

\* C1: for every table and every filter state, the counts of region_counts
\* sum to the number of records whose gender is selected and whose age lies
\* in [age_min, age_max].
C1_RegionCountsSum ==
    Rendered =>
        SumCases(fig1[1].data) =
            Cardinality(Matching(fig1[1].selected_genders, fig1[1].age_range))

C1_Witness ==
    /\ Rendered
    /\ Len(fig1[1].data) = 2
    /\ SumCases(fig1[1].data) = 2
    /\ Len(covid_filtered) = 3

\* C2: the age filter is inclusive at both bounds: a record of a selected
\* gender has its row in age_region_counts exactly when
\* age_min <= age <= age_max, and every province's region count is the number
\* of such records.
C2_AgeInclusive ==
    Rendered =>
        LET sg == fig2[1].selected_genders
            ar == fig2[1].age_range
        IN  /\ \A i \in DOMAIN covid_filtered :
                  covid_filtered[i]["gender"] \in sg =>
                      ( RowsOf(fig2[1].data, Triple(covid_filtered[i])) # {}
                        <=> ( ar[1] <= covid_filtered[i]["age"]
                              /\ covid_filtered[i]["age"] <= ar[2] ) )
            /\ \A p \in Provinces :
                  RegionCount(fig1[1].data, p) =
                      Cardinality({ i \in DOMAIN covid_filtered :
                                      /\ covid_filtered[i]["province"] = p
                                      /\ covid_filtered[i]["gender"] \in sg
                                      /\ ar[1] <= covid_filtered[i]["age"]
                                      /\ covid_filtered[i]["age"] <= ar[2] })

\* A record at age_min = age_max is counted, one at age_max + 1 is not.
C2_Witness ==
    /\ Rendered
    /\ fig2[1].age_range = <<0, 0>>
    /\ \E i, j \in DOMAIN covid_filtered :
          /\ covid_filtered[i]["gender"] \in fig2[1].selected_genders
          /\ covid_filtered[j]["gender"] \in fig2[1].selected_genders
          /\ covid_filtered[i]["age"] = 0
          /\ covid_filtered[j]["age"] = 1
          /\ RowsOf(fig2[1].data, Triple(covid_filtered[i])) # {}
          /\ RowsOf(fig2[1].data, Triple(covid_filtered[j])) = {}

\* A record at age_min = age_max is counted, one at age_min - 1 is not.
C2_WitnessBelow ==
    /\ Rendered
    /\ fig2[1].age_range = <<1, 1>>
    /\ \E i, j \in DOMAIN covid_filtered :
          /\ covid_filtered[i]["gender"] \in fig2[1].selected_genders
          /\ covid_filtered[j]["gender"] \in fig2[1].selected_genders
          /\ covid_filtered[i]["age"] = 1
          /\ covid_filtered[j]["age"] = 0
          /\ RowsOf(fig2[1].data, Triple(covid_filtered[i])) # {}
          /\ RowsOf(fig2[1].data, Triple(covid_filtered[j])) = {}

\* C3: region_counts is sorted descending by count: of two consecutive rows
\* the earlier has the greater or an equal count.
C3_SortedDescending ==
    Rendered =>
        \A j \in 1..(Len(fig1[1].data) - 1) :
            fig1[1].data[j]["cases"] >= fig1[1].data[j + 1]["cases"]

\* The sort has moved the later province in front of the earlier one.
C3_Witness ==
    /\ Rendered
    /\ Len(fig1[1].data) = 2
    /\ fig1[1].data[1]["province"] = "Cordoba"
    /\ fig1[1].data[1]["cases"] > fig1[1].data[2]["cases"]

\* C4: with no gender selected, whatever the age bounds, the callback answers
\* and both region_counts and age_region_counts have no rows.
C4_EmptyGenders ==
    /\ pc = "serving" /\ fig1 # <<>> /\ fig1[1].selected_genders = {}
          => fig1[1].data = <<>>
    /\ pc = "serving" /\ fig2 # <<>> /\ fig2[1].selected_genders = {}
          => fig2[1].data = <<>>
    /\ (fig1 # <<>> \/ fig2 # <<>>) => pc = "serving"

C4_Witness ==
    /\ Rendered
    /\ fig1[1].selected_genders = {}
    /\ fig1[1].data = <<>>
    /\ fig2[1].data = <<>>
    /\ \E i \in DOMAIN covid_filtered :
          /\ fig1[1].age_range[1] <= covid_filtered[i]["age"]
          /\ covid_filtered[i]["age"] <= fig1[1].age_range[2]

\* C5: with exactly one gender g selected, every row of age_region_counts has
\* gender g, whatever the age bounds.
C5_SingleGenderRows ==
    \A g \in Genders :
        (fig2 # <<>> /\ fig2[1].selected_genders = {g}) =>
            \A j \in DOMAIN fig2[1].data : fig2[1].data[j]["gender"] = g

\* Rows of F are shown while a record of M lies in the age range.
C5_Witness ==
    /\ Rendered
    /\ fig2[1].selected_genders = {"F"}
    /\ fig2[1].data # <<>>
    /\ \E i \in DOMAIN covid_filtered :
          /\ covid_filtered[i]["gender"] = "M"
          /\ fig2[1].age_range[1] <= covid_filtered[i]["age"]
          /\ covid_filtered[i]["age"] <= fig2[1].age_range[2]

\* C6: the provinces of region_counts are exactly the provinces of the
\* filtered records, each on exactly one row, and every row counts at least
\* one record.
C6_ProvinceList ==
    Rendered =>
        LET data == fig1[1].data
            M == Matching(fig1[1].selected_genders, fig1[1].age_range)
        IN  /\ { data[j]["province"] : j \in DOMAIN data } =
                   { covid_filtered[i]["province"] : i \in M }
            /\ \A j, h \in DOMAIN data :
                   data[j]["province"] = data[h]["province"] => j = h
            /\ \A j \in DOMAIN data : data[j]["cases"] >= 1

\* The filter has removed every record of one province of the table.
C6_Witness ==
    /\ Rendered
    /\ Len(fig1[1].data) = 1
    /\ \E i \in DOMAIN covid_filtered :
          covid_filtered[i]["province"] # fig1[1].data[1]["province"]

\* C7: age_region_counts has exactly one row for every (age, province,
\* gender) of a filtered record and no other row, the row counts the filtered
\* records of that triple, and the counts sum to the number of filtered
\* records.
C7_AgeRegionCounts ==
    Rendered =>
        LET data == fig2[1].data
            M == Matching(fig2[1].selected_genders, fig2[1].age_range)
        IN  /\ \A i \in M :
                   /\ Cardinality(RowsOf(data, Triple(covid_filtered[i]))) = 1
                   /\ \A j \in RowsOf(data, Triple(covid_filtered[i])) :
                          data[j]["cases"] =
                              Cardinality({ h \in M : Triple(covid_filtered[h]) =
                                                      Triple(covid_filtered[i]) })
            /\ \A j \in DOMAIN data :
                   \E i \in M : Triple(covid_filtered[i]) = Triple(data[j])
            /\ SumCases(data) = Cardinality(M)

C7_Witness ==
    /\ Rendered
    /\ Len(fig2[1].data) = 2
    /\ \E j \in DOMAIN fig2[1].data : fig2[1].data[j]["cases"] = 2
    /\ fig2[1].selected_genders = Genders

\* C8 as stated: with exactly one gender selected, region_counts and
\* age_region_counts have exactly one row each (read with a filter result
\* that is not empty, the empty result being the other edge case).
C8_SingleRowTables ==
    ( /\ Rendered
      /\ Cardinality(fig1[1].selected_genders) = 1
      /\ Matching(fig1[1].selected_genders, fig1[1].age_range) # {} ) =>
        Len(fig1[1].data) = 1 /\ Len(fig2[1].data) = 1

\* C8 amended: with exactly one gender selected, region_counts has one row
\* for each province of the filtered records and age_region_counts one row
\* for each (age, province) of them.
C8_OneRowPerGroup ==
    (Rendered /\ Cardinality(fig1[1].selected_genders) = 1) =>
        LET M == Matching(fig1[1].selected_genders, fig1[1].age_range)
        IN  /\ Len(fig1[1].data) =
                   Cardinality({ covid_filtered[i]["province"] : i \in M })
            /\ Len(fig2[1].data) =
                   Cardinality({ <<covid_filtered[i]["age"], covid_filtered[i]["province"]>> :
                                 i \in M })

\* One gender selected; two records share a province, a third has another.
C8_Witness ==
    /\ Rendered
    /\ Cardinality(fig1[1].selected_genders) = 1
    /\ Len(fig1[1].data) = 2
    /\ SumCases(fig1[1].data) = 3

\* The rows of the file that miss none of gender, age and province.
CompleteIdx ==
    { i \in DOMAIN covid_data :
        /\ covid_data[i]["gender"] # NaN
        /\ covid_data[i]["age"] # NaNAge
        /\ covid_data[i]["province"] # NaN }

\* C9: a row that misses its gender, age or province is dropped at load
\* without an error: the loaded table holds the other rows only, and under
\* every filter state the counts of both views sum to the number of those
\* other rows that the filter selects.
C9_NullRowsDropped ==
    /\ pc # "error"
    /\ pc = "serving" =>
          /\ Len(covid_filtered) = Cardinality(CompleteIdx)
          /\ \A i \in DOMAIN covid_filtered :
                 /\ covid_filtered[i]["gender"] # NaN
                 /\ covid_filtered[i]["age"] # NaNAge
                 /\ covid_filtered[i]["province"] # NaN
    /\ Rendered =>
          LET sg == fig1[1].selected_genders
              ar == fig1[1].age_range
              kept == { i \in CompleteIdx :
                          /\ covid_data[i]["gender"] \in sg
                          /\ ar[1] <= covid_data[i]["age"] \div 2
                          /\ covid_data[i]["age"] \div 2 <= ar[2] }
          IN  /\ SumCases(fig1[1].data) = Cardinality(kept)
              /\ SumCases(fig2[1].data) = Cardinality(kept)

\* The file has a row without age and a row without gender; a third row is
\* counted.
C9_Witness ==
    /\ Rendered
    /\ \E i \in DOMAIN covid_data : covid_data[i]["age"] = NaNAge
    /\ \E i \in DOMAIN covid_data : covid_data[i]["gender"] = NaN
    /\ SumCases(fig1[1].data) = 1
    /\ SumCases(fig2[1].data) = 1

----------------------------------------------------------------------------
(* lo1.py, under SpecLo1 *)

\* The loaded records whose gender is selected.
Selected(selected_genders) ==
    SelectSeq(covid_filtered, LAMBDA r : r["gender"] \in selected_genders)

\* C10: update_age_region, which filters the table aggregated at import,
\* returns the rows and counts of grouping the gender-filtered records by
\* (age, province, gender), and its counts sum to the counts of
\* update_region_cases for the same selected genders.
C10_FilterAfterAggregate ==
    fig2 # <<>> =>
        LET sg == fig2[1].selected_genders
            data == fig2[1].data
            S == Selected(sg)
        IN  /\ \A i \in DOMAIN S :
                   /\ Cardinality(RowsOf(data, Triple(S[i]))) = 1
                   /\ \A j \in RowsOf(data, Triple(S[i])) :
                          data[j]["cases"] =
                              Cardinality({ h \in DOMAIN S : Triple(S[h]) = Triple(S[i]) })
            /\ \A j \in DOMAIN data : \E i \in DOMAIN S : Triple(S[i]) = Triple(data[j])
            /\ (fig1 # <<>> /\ fig1[1].selected_genders = sg) =>
                   SumCases(data) = SumCases(fig1[1].data)

\* Both callbacks have answered for F alone; rows of M were filtered out of
\* the aggregated table, and one row counts two records.
C10_Witness ==
    /\ fig1 # <<>> /\ fig2 # <<>>
    /\ fig1[1].selected_genders = {"F"}
    /\ fig2[1].selected_genders = {"F"}
    /\ Len(gapminder_data) = 2
    /\ Len(fig2[1].data) = 1
    /\ fig2[1].data[1]["cases"] = 2

\* The callbacks of lo1.py have no age filter; what C3, C4, C5 and C9 say of
\* update_graphs, said of update_region_cases and update_age_region.
Lo1_SortedDescending ==
    fig1 # <<>> =>
        \A j \in 1..(Len(fig1[1].data) - 1) :
            fig1[1].data[j]["cases"] >= fig1[1].data[j + 1]["cases"]

Lo1_EmptyGenders ==
    /\ (fig1 # <<>> /\ fig1[1].selected_genders = {}) => fig1[1].data = <<>>
    /\ (fig2 # <<>> /\ fig2[1].selected_genders = {}) => fig2[1].data = <<>>

Lo1_SingleGenderRows ==
    \A g \in Genders :
        (fig2 # <<>> /\ fig2[1].selected_genders = {g}) =>
            \A j \in DOMAIN fig2[1].data : fig2[1].data[j]["gender"] = g

Lo1_NullRowsDropped ==
    /\ pc = "serving" => Len(covid_filtered) = Cardinality(CompleteIdx)
    /\ fig1 # <<>> =>
          SumCases(fig1[1].data) =
              Cardinality({ i \in CompleteIdx :
                              covid_data[i]["gender"] \in fig1[1].selected_genders })
    /\ fig2 # <<>> =>
          SumCases(fig2[1].data) =
              Cardinality({ i \in CompleteIdx :
                              covid_data[i]["gender"] \in fig2[1].selected_genders })

====
